---- MODULE Spec2Model ----
(***************************************************************************)
(* Model of the transcription driver script src/main.py of                 *)
(* voice-chat-translator: check the model directory, load the model,       *)
(* transcode audio.ogg to audio.wav with ffmpeg, construct the Vosk        *)
(* recognizer, open and validate the WAV file, stream 4000-frame blocks    *)
(* into the recognizer printing every non-empty text, and print the final  *)
(* result.                                                                 *)
(*                                                                         *)
(* The script is one sequential thread; pc is the statement it is about to *)
(* execute.  The external world (file system, ffmpeg, the Vosk decoder)    *)
(* is nondeterministic: what exists on disk is drawn in Init, what ffmpeg  *)
(* writes and what the decoder answers is drawn when they are called.      *)
(* Audio data is modelled by position: a block is the byte range           *)
(* [off, off + len) of the WAV file's PCM payload.                         *)
(***************************************************************************)
EXTENDS Integers, Sequences, FiniteSets, TLC

VARIABLES
    pc,             \* the statement of src/main.py about to run, or "done"/"failed"
    modelDirExists, \* os.path.isdir(MODEL_PATH)
    modelLoadable,  \* whether Model(MODEL_PATH) succeeds on that directory
    inputKind,      \* audio.ogg on disk: "missing", "undecodable" or "ok"
    model,          \* the loaded model: "none" or "loaded"
    wavFile,        \* audio.wav on disk: NoFile or a record of its header and size
    wavWrites,      \* how many times this run created/overwrote audio.wav
    rec,            \* the KaldiRecognizer: NoRec or [sample_rate, words, state]
    wf,             \* the wave reader: [state, pos], pos a byte offset in the payload
    data,           \* the block last returned by wf.readframes
    result,         \* the dict last parsed from rec.Result() / rec.FinalResult()
    reads,          \* number of wf.readframes calls made
    fed,            \* blocks passed to rec.AcceptWaveform, in order
    interims,       \* dicts obtained from rec.Result(), in order
    finals,         \* dicts obtained from rec.FinalResult(), in order
    printed,        \* lines written to standard output, in order
    steps,          \* the statements executed so far, in order
    err,            \* the exception that ended the run, or "none"
    failedAt        \* the statement that raised it, or "none"

vars == <<pc, modelDirExists, modelLoadable, inputKind, model, wavFile, wavWrites,
          rec, wf, data, result, reads, fed, interims, finals, printed, steps,
          err, failedAt>>

-----------------------------------------------------------------------------
(* Program constants *)

sample_rate == 16000

BlockFrames == 4000

MonoChannels == 1

PcmSampWidth == 2

(* Bounds of the model *)

\* the WAV payload holds at most MaxFullBlocks full blocks plus a tail
MaxFullBlocks == 2

\* lengths, in frames, of the tail after the full blocks
Tails == {0, 1, BlockFrames - 1}

FrameCounts == {k * BlockFrames + r : k \in 0..MaxFullBlocks, r \in Tails}

\* channel counts and sample widths a file found at audio.wav may have
Channels == {1, 2}

SampWidths == {1, 2}

\* texts the decoder may recognise; "" is silence
Texts == {"", "alpha", "beta"}

\* the dicts json.loads may give for a decoder answer: with or without a "text" key
Dicts == {[text |-> t] : t \in Texts} \cup {[partial |-> ""]}

NoFile == [exists |-> FALSE]

NoRec == [state |-> "none"]

NoData == [off |-> 0, len |-> 0]

NoResult == [none |-> TRUE]

WavFiles == {[exists |-> TRUE, riff |-> rf, nchannels |-> c, sampwidth |-> w, nframes |-> n] :
                rf \in BOOLEAN, c \in Channels, w \in SampWidths, n \in FrameCounts}

\* what an earlier run may have left at audio.wav
StaleFile == [exists |-> TRUE, riff |-> TRUE, nchannels |-> MonoChannels,
              sampwidth |-> PcmSampWidth, nframes |-> 1]

\* what a failed ffmpeg run may leave at audio.wav: a file with no valid header
BrokenFile == [exists |-> TRUE, riff |-> FALSE, nchannels |-> MonoChannels,
               sampwidth |-> PcmSampWidth, nframes |-> 0]

-----------------------------------------------------------------------------
(* Helpers *)

\* bytes of one frame of file f (wave: nchannels * sampwidth)
FrameSize(f) == f.nchannels * f.sampwidth

\* bytes of PCM payload of file f
PayloadLen(f) == f.nframes * FrameSize(f)

Min(a, b) == IF a < b THEN a ELSE b

\* faulty variant of ReadFrames: n counted in bytes instead of frames
ReadFramesShortUnit(f, pos, n) == [off |-> pos, len |-> Min(n, PayloadLen(f) - pos)]

\* faulty variant of ReadFrames: a last block shorter than n frames is lost
ReadFramesDropTail(f, pos, n) ==
    [off |-> pos,
     len |-> IF PayloadLen(f) - pos < n * FrameSize(f) THEN 0 ELSE n * FrameSize(f)]

\* wf.readframes(n) at byte offset pos of file f: at most n frames, fewer at the end
ReadFrames(f, pos, n) == [off |-> pos, len |-> Min(n * FrameSize(f), PayloadLen(f) - pos)]

\* `not data`: a bytes object is falsy exactly when it is empty
NotData(d) == d.len = 0

\* faulty variant of BadFormat: the test never fires
BadFormatNever(f) == FALSE

\* the format test of line 33

BadFormat(f) == f.nchannels # MonoChannels \/ f.sampwidth # PcmSampWidth

\* faulty variant of ShouldPrint: the truthiness test of the text is missing
ShouldPrintAnyText(r) == "text" \in DOMAIN r

\* `"text" in r and r["text"]`

ShouldPrint(r) == "text" \in DOMAIN r /\ r.text # ""

\* faulty variant of WithExit: the reader is left open
WithExitLeak(h) == h

\* the with statement's exit: the wave reader is closed if it was opened

WithExit(h) == IF h.state = "open" THEN [h EXCEPT !.state = "closed"] ELSE h

\* an exception outside any handler ends the script
Raise(kind) ==
    /\ pc' = "failed"
    /\ err' = kind
    /\ failedAt' = pc

\* faulty variant of RaiseInWith: the exception is caught and the loop goes on
RaiseInWithSwallowed(kind) ==
    /\ pc' = "read"
    /\ err' = kind
    /\ failedAt' = pc
    /\ wf' = wf

\* an exception inside the with block: the reader is closed, then it propagates
RaiseInWith(kind) ==
    /\ Raise(kind)
    /\ wf' = WithExit(wf)

Step(name) == steps' = Append(steps, name)

-----------------------------------------------------------------------------
Init ==
    /\ pc = "check_model"
    /\ modelDirExists \in BOOLEAN
    /\ modelLoadable \in BOOLEAN
    /\ modelLoadable => modelDirExists
    /\ inputKind \in {"missing", "undecodable", "ok"}
    /\ model = "none"
    /\ wavFile \in {NoFile, StaleFile}
    /\ wavWrites = 0
    /\ rec = NoRec
    /\ wf = [state |-> "unopened", pos |-> 0]
    /\ data = NoData
    /\ result = NoResult
    /\ reads = 0
    /\ fed = <<>>
    /\ interims = <<>>
    /\ finals = <<>>
    /\ printed = <<>>
    /\ steps = <<>>
    /\ err = "none"
    /\ failedAt = "none"

-----------------------------------------------------------------------------
(* Faulty variant of CheckModelDir: the directory test is missing *)
CheckModelDirUnchecked ==
    /\ pc = "check_model"
    /\ Step("check_model")
    /\ pc' = "load_model"
    /\ UNCHANGED <<err, failedAt>>
    /\ UNCHANGED <<modelDirExists, modelLoadable, inputKind, model, wavFile, wavWrites,
                   rec, wf, data, result, reads, fed, interims, finals, printed>>

(* Lines 13-14: if not os.path.isdir(MODEL_PATH): raise FileNotFoundError *)
CheckModelDir ==
    /\ pc = "check_model"
    /\ Step("check_model")
    /\ IF modelDirExists
         THEN pc' = "load_model" /\ UNCHANGED <<err, failedAt>>
         ELSE Raise("FileNotFoundError")
    /\ UNCHANGED <<modelDirExists, modelLoadable, inputKind, model, wavFile, wavWrites,
                   rec, wf, data, result, reads, fed, interims, finals, printed>>

(* Faulty variant of LoadModel: control passes the transcoding statement *)
LoadModelSkipTranscode ==
    /\ pc = "load_model"
    /\ Step("load_model")
    /\ IF modelLoadable
         THEN model' = "loaded" /\ pc' = "make_rec" /\ UNCHANGED <<err, failedAt>>
         ELSE Raise("ModelLoadError") /\ UNCHANGED model
    /\ UNCHANGED <<modelDirExists, modelLoadable, inputKind, wavFile, wavWrites,
                   rec, wf, data, result, reads, fed, interims, finals, printed>>

(* Line 15: model = Model(MODEL_PATH); vosk raises when it cannot create the model *)
LoadModel ==
    /\ pc = "load_model"
    /\ Step("load_model")
    /\ IF modelLoadable
         THEN model' = "loaded" /\ pc' = "transcode" /\ UNCHANGED <<err, failedAt>>
         ELSE Raise("ModelLoadError") /\ UNCHANGED model
    /\ UNCHANGED <<modelDirExists, modelLoadable, inputKind, wavFile, wavWrites,
                   rec, wf, data, result, reads, fed, interims, finals, printed>>

(* Lines 18-24: ffmpeg.input(INPUT_OGG).output(OUTPUT_WAV, ...).overwrite_output().run() *)
(* run() blocks until ffmpeg exits and raises ffmpeg.Error on a non-zero exit.          *)
(* A missing input makes ffmpeg exit before it opens the output; an undecodable one     *)
(* may fail after the output was created.                                               *)
(* TranscodeIgnoreExit is the faulty variant that ignores ffmpeg's exit status.          *)
TranscodeIgnoreExit ==
    /\ pc = "transcode"
    /\ Step("transcode")
    /\ pc' = "make_rec"
    /\ IF inputKind = "ok"
         THEN \E f \in WavFiles : wavFile' = f /\ wavWrites' = wavWrites + 1
         ELSE UNCHANGED <<wavFile, wavWrites>>
    /\ UNCHANGED <<err, failedAt>>
    /\ UNCHANGED <<modelDirExists, modelLoadable, inputKind, model,
                   rec, wf, data, result, reads, fed, interims, finals, printed>>

Transcode ==
    /\ pc = "transcode"
    /\ Step("transcode")
    /\ CASE inputKind = "ok" ->
              /\ \E f \in WavFiles : wavFile' = f
              /\ wavWrites' = wavWrites + 1
              /\ pc' = "make_rec"
              /\ UNCHANGED <<err, failedAt>>
         [] inputKind = "undecodable" ->
              /\ \/ UNCHANGED <<wavFile, wavWrites>>
                 \/ wavFile' = BrokenFile /\ wavWrites' = wavWrites + 1
              /\ Raise("ffmpeg.Error")
         [] inputKind = "missing" ->
              /\ UNCHANGED <<wavFile, wavWrites>>
              /\ Raise("ffmpeg.Error")
    /\ UNCHANGED <<modelDirExists, modelLoadable, inputKind, model,
                   rec, wf, data, result, reads, fed, interims, finals, printed>>

(* Lines 27-29: rec = KaldiRecognizer(model, sample_rate); rec.SetWords(True) *)
MakeRecognizer ==
    /\ pc = "make_rec"
    /\ Step("make_rec")
    /\ \/ /\ rec' = [state |-> "Active", sample_rate |-> sample_rate, words |-> TRUE,
                     model |-> model]
          /\ pc' = "open_wav"
          /\ UNCHANGED <<err, failedAt>>
       \/ /\ Raise("RecognizerError")
          /\ UNCHANGED rec
    /\ UNCHANGED <<modelDirExists, modelLoadable, inputKind, model, wavFile, wavWrites,
                   wf, data, result, reads, fed, interims, finals, printed>>

(* Line 31: with wave.open(OUTPUT_WAV, "rb") as wf; wave.Error when the header is bad *)
OpenWav ==
    /\ pc = "open_wav"
    /\ Step("open_wav")
    /\ IF wavFile.exists /\ wavFile.riff
         THEN wf' = [state |-> "open", pos |-> 0] /\ pc' = "validate"
              /\ UNCHANGED <<err, failedAt>>
         ELSE Raise("wave.Error") /\ UNCHANGED wf
    /\ UNCHANGED <<modelDirExists, modelLoadable, inputKind, model, wavFile, wavWrites,
                   rec, data, result, reads, fed, interims, finals, printed>>

(* Lines 33-34: if wf.getnchannels() != 1 or wf.getsampwidth() != 2: raise ValueError *)
Validate ==
    /\ pc = "validate"
    /\ Step("validate")
    /\ IF BadFormat(wavFile)
         THEN RaiseInWith("ValueError")
         ELSE pc' = "read" /\ UNCHANGED <<err, failedAt, wf>>
    /\ UNCHANGED <<modelDirExists, modelLoadable, inputKind, model, wavFile, wavWrites,
                   rec, data, result, reads, fed, interims, finals, printed>>

(* Lines 36-39: data = wf.readframes(4000); if not data: break *)
ReadBlock ==
    /\ pc = "read"
    /\ Step("read")
    /\ wf.state = "open"
    /\ LET d == ReadFrames(wavFile, wf.pos, BlockFrames) IN
         /\ data' = d
         /\ wf' = [wf EXCEPT !.pos = wf.pos + d.len]
         /\ reads' = reads + 1
         /\ pc' = IF NotData(d) THEN "finalize" ELSE "accept"
    /\ UNCHANGED <<modelDirExists, modelLoadable, inputKind, model, wavFile, wavWrites,
                   rec, result, fed, interims, finals, printed, err, failedAt>>

(* Line 40: if rec.AcceptWaveform(data): the decoder decides whether an utterance ended *)
AcceptWaveform ==
    /\ pc = "accept"
    /\ Step("feed")
    /\ rec.state = "Active"
    /\ fed' = Append(fed, data)
    /\ \E utterance \in BOOLEAN :
         pc' = IF utterance THEN "result" ELSE "read"
    /\ UNCHANGED <<modelDirExists, modelLoadable, inputKind, model, wavFile, wavWrites,
                   rec, wf, data, result, reads, interims, finals, printed, err, failedAt>>

(* Line 40, vosk raising "Failed to process waveform" *)
AcceptWaveformFails ==
    /\ pc = "accept"
    /\ Step("feed")
    /\ rec.state = "Active"
    /\ fed' = Append(fed, data)
    /\ RaiseInWith("AcceptError")
    /\ UNCHANGED <<modelDirExists, modelLoadable, inputKind, model, wavFile, wavWrites,
                   rec, data, result, reads, interims, finals, printed>>

(* Line 41: result = json.loads(rec.Result()) *)
GetResult ==
    /\ pc = "result"
    /\ Step("result")
    /\ \E r \in Dicts :
         /\ result' = r
         /\ interims' = Append(interims, r)
    /\ pc' = "print"
    /\ UNCHANGED <<modelDirExists, modelLoadable, inputKind, model, wavFile, wavWrites,
                   rec, wf, data, reads, fed, finals, printed, err, failedAt>>

(* Line 41, rec.Result() or json.loads raising *)
GetResultFails ==
    /\ pc = "result"
    /\ Step("result")
    /\ RaiseInWith("ResultError")
    /\ UNCHANGED <<modelDirExists, modelLoadable, inputKind, model, wavFile, wavWrites,
                   rec, data, result, reads, fed, interims, finals, printed>>

(* Lines 42-43: if "text" in result and result["text"]: print(result["text"]) *)
PrintResult ==
    /\ pc = "print"
    /\ Step("print")
    /\ printed' = IF ShouldPrint(result) THEN Append(printed, result.text) ELSE printed
    /\ pc' = "read"
    /\ UNCHANGED <<modelDirExists, modelLoadable, inputKind, model, wavFile, wavWrites,
                   rec, wf, data, result, reads, fed, interims, finals, err, failedAt>>

(* Faulty variant of Finalize: no final result is asked for when nothing was fed *)
FinalizeSkipWhenUnfed ==
    /\ pc = "finalize"
    /\ Step("finalize")
    /\ IF fed = <<>>
         THEN UNCHANGED <<rec, result, finals>>
         ELSE \E r \in Dicts :
                /\ result' = r
                /\ finals' = Append(finals, r)
                /\ rec' = [rec EXCEPT !.state = "Finalized"]
    /\ pc' = "print_final"
    /\ UNCHANGED <<modelDirExists, modelLoadable, inputKind, model, wavFile, wavWrites,
                   wf, data, reads, fed, interims, printed, err, failedAt>>

(* Line 45: final_result = json.loads(rec.FinalResult()) *)
Finalize ==
    /\ pc = "finalize"
    /\ Step("finalize")
    /\ rec.state = "Active"
    /\ \E r \in Dicts :
         /\ result' = r
         /\ finals' = Append(finals, r)
    /\ rec' = [rec EXCEPT !.state = "Finalized"]
    /\ pc' = "print_final"
    /\ UNCHANGED <<modelDirExists, modelLoadable, inputKind, model, wavFile, wavWrites,
                   wf, data, reads, fed, interims, printed, err, failedAt>>

(* Lines 46-47: if "text" in final_result and final_result["text"]: print(...);  *)
(* the with block ends here and closes the reader                                *)
PrintFinal ==
    /\ pc = "print_final"
    /\ Step("print_final")
    /\ printed' = IF ShouldPrint(result) THEN Append(printed, result.text) ELSE printed
    /\ wf' = WithExit(wf)
    /\ pc' = "done"
    /\ UNCHANGED <<modelDirExists, modelLoadable, inputKind, model, wavFile, wavWrites,
                   rec, data, result, reads, fed, interims, finals, err, failedAt>>

Next ==
    \/ CheckModelDir
    \/ LoadModel
    \/ Transcode
    \/ MakeRecognizer
    \/ OpenWav
    \/ Validate
    \/ ReadBlock
    \/ AcceptWaveform
    \/ AcceptWaveformFails
    \/ GetResult
    \/ GetResultFails
    \/ PrintResult
    \/ Finalize
    \/ PrintFinal

Spec == Init /\ [][Next]_vars

\* the script is a single thread that keeps executing until it ends
FairSpec == Spec /\ WF_vars(Next)

Terminated == pc \in {"done", "failed"}

-----------------------------------------------------------------------------
(* Vocabulary of the properties *)

\* the statements before the feed loop, in the order the script executes them
CodeOrder == <<"check_model", "load_model", "transcode", "make_rec", "open_wav", "validate">>

\* the same statements in the order of the design document: session after validation
DocOrder == <<"check_model", "load_model", "transcode", "open_wav", "validate", "make_rec">>

\* which statement may directly follow which inside and after the feed loop
LoopEdges == {<<"read", "feed">>, <<"read", "finalize">>, <<"feed", "read">>,
              <<"feed", "result">>, <<"result", "print">>, <<"print", "read">>,
              <<"finalize", "print_final">>}

\* steps is a run of `setup` in order, then the read/feed/result/print loop, then finalize
FollowsOrder(setup) ==
    LET n == Len(setup) IN
      /\ \A i \in 1..Min(Len(steps), n) : steps[i] = setup[i]
      /\ Len(steps) > n => steps[n + 1] = "read"
      /\ \A i \in (n + 2)..Len(steps) : <<steps[i - 1], steps[i]>> \in LoopEdges

Occurs(name) == \E i \in 1..Len(steps) : steps[i] = name

\* the texts of the dicts of sequence rs that have a non-empty "text", in order
RECURSIVE TextsOf(_)
TextsOf(rs) ==
    IF rs = <<>> THEN <<>>
    ELSE LET r == Head(rs) IN
           (IF "text" \in DOMAIN r THEN (IF r.text = "" THEN <<>> ELSE <<r.text>>) ELSE <<>>)
             \o TextsOf(Tail(rs))

\* bytes of a full block of a mono 16-bit file
FullBlockBytes == BlockFrames * MonoChannels * PcmSampWidth

\* the blocks of a payload of `total` bytes from offset `off`: full ones, then the rest
RECURSIVE BlocksFrom(_, _)
BlocksFrom(total, off) ==
    IF off >= total THEN <<>>
    ELSE LET l == IF total - off < FullBlockBytes THEN total - off ELSE FullBlockBytes IN
           <<[off |-> off, len |-> l]>> \o BlocksFrom(total, off + l)

SetupSteps == {"check_model", "load_model", "transcode", "make_rec", "open_wav", "validate"}

InWithBlock == {"validate", "read", "accept", "result", "print", "finalize", "print_final"}

-----------------------------------------------------------------------------
(* C1 as stated: the statements run in the order check model directory, load   *)
(* model, transcode, open and validate the WAV file, construct the session,    *)
(* read/feed blocks, finalize; the session is never constructed before the WAV *)
(* file has been opened and validated.                                         *)
C1_DocOrder == FollowsOrder(DocOrder) /\ (rec # NoRec => Occurs("validate"))

(* C1 amended: the statements run in the strict order check model directory,   *)
(* load model, transcode, construct the session at 16000 Hz with word detail,  *)
(* open the WAV file, validate its format, read/feed blocks, finalize; the     *)
(* session is constructed before the WAV file is opened.                       *)
C1_CodeOrder ==
    /\ FollowsOrder(CodeOrder)
    /\ wf.state # "unopened" => rec # NoRec
    /\ rec # NoRec => rec.sample_rate = 16000 /\ rec.words = TRUE /\ rec.model = "loaded"

C1_Witness == pc = "done" /\ Len(fed) >= 2 /\ Len(interims) >= 1

(* C2: when the model directory does not exist the run fails with the missing- *)
(* model error (FileNotFoundError in the script) at the directory check: the   *)
(* transcoder is never started, audio.wav is never created or overwritten, no  *)
(* frame is read and nothing is printed.                                       *)
C2_ModelDirMissing ==
    ~modelDirExists =>
        /\ pc \in {"check_model", "failed"}
        /\ pc = "failed" => err = "FileNotFoundError" /\ failedAt = "check_model"
        /\ ~Occurs("transcode")
        /\ wavWrites = 0
        /\ model = "none"
        /\ reads = 0
        /\ printed = <<>>

C2_Witness == ~modelDirExists /\ pc = "failed" /\ inputKind = "ok"

(* C3 as stated: when the input audio file is missing, the transcoder fails    *)
(* before any model loading side effect exists.                                *)
C3_NoModelLoaded ==
    (inputKind = "missing" /\ failedAt = "transcode") => model = "none"

(* C3 amended: when the input audio file is missing the run never gets past    *)
(* the transcoder; the transcoder fails with its error after the model has     *)
(* been loaded and before any session is constructed, audio.wav is not         *)
(* written, no frame is read and nothing is printed.                           *)
C3_InputMissing ==
    inputKind = "missing" =>
        /\ Occurs("transcode") =>
              pc = "failed" /\ failedAt = "transcode" /\ err = "ffmpeg.Error"
        /\ failedAt = "transcode" => model = "loaded"
        /\ rec = NoRec
        /\ wf.state = "unopened"
        /\ wavWrites = 0
        /\ reads = 0
        /\ printed = <<>>

C3_Witness == inputKind = "missing" /\ failedAt = "transcode" /\ pc = "failed"

(* C4: a failure before the feed loop (model directory missing, model load,    *)
(* transcoder, session construction, WAV open, format validation) leaves no    *)
(* block read, no block fed, no final result and nothing printed; the format   *)
(* is checked once, before the first read, and a file that is not mono 16-bit  *)
(* is never read.                                                              *)
C4_FatalBeforeRecognition ==
    /\ (pc = "failed" /\ failedAt \in SetupSteps) =>
          reads = 0 /\ fed = <<>> /\ interims = <<>> /\ finals = <<>> /\ printed = <<>>
    /\ reads > 0 => wavFile.nchannels = 1 /\ wavFile.sampwidth = 2
    /\ Cardinality({i \in 1..Len(steps) : steps[i] = "validate"}) <= 1
    /\ \A j \in 1..Len(steps) :
          steps[j] = "read" => \E i \in 1..(j - 1) : steps[i] = "validate"

C4_Witness ==
    /\ pc = "failed" /\ failedAt = "validate" /\ err = "ValueError"
    /\ wavFile.nchannels = 2 /\ wavFile.nframes > 0

(* C5: in a successful run the printed lines are exactly the non-empty interim *)
(* texts in the order produced, followed by the final text if non-empty; an    *)
(* empty or absent text is never printed.                                      *)
C5_PrintedLines ==
    /\ pc = "done" => printed = TextsOf(interims) \o TextsOf(finals)
    /\ \A i \in 1..Len(printed) : printed[i] # ""

C5_Witness ==
    /\ pc = "done" /\ Len(printed) = 2 /\ Len(finals) = 1
    /\ \E i \in 1..Len(interims) : interims[i] = [text |-> ""]
    /\ finals[1] = [text |-> "beta"]

(* C6 as stated: every session that is created is finalized exactly once, in   *)
(* every run.                                                                  *)
C6_EveryRunFinalized ==
    (pc \in {"done", "failed"} /\ rec # NoRec) => Len(finals) = 1

(* C6 amended: a session is finalized at most once; every run that completes   *)
(* without error retrieves exactly one final result, at end of stream, also    *)
(* when zero blocks were fed or all interim results were empty; no block is    *)
(* fed after finalize.                                                         *)
C6_FinalizedOnce ==
    /\ Len(finals) <= 1
    /\ pc = "done" => Len(finals) = 1
    /\ Len(finals) = 1 <=> (rec # NoRec /\ rec.state = "Finalized")
    /\ Len(finals) = 1 => wf.pos = PayloadLen(wavFile)
    /\ \A i \in 1..Len(steps) : \A j \in 1..Len(steps) :
          (steps[i] = "finalize" /\ steps[j] = "feed") => j < i

C6_Witness == pc = "done" /\ fed = <<>> /\ Len(finals) = 1

(* C7: no block handed to the session is larger than 4000 frames or empty,     *)
(* only the last block may be shorter, and the blocks, in order, tile the      *)
(* payload from its first byte to its last once the file is exhausted.         *)
C7_Blocks ==
    /\ data.len <= FullBlockBytes
    /\ \A i \in 1..Len(fed) : fed[i].len > 0 /\ fed[i].len <= FullBlockBytes
    /\ \A i \in 1..(Len(fed) - 1) : fed[i].len = FullBlockBytes
    /\ \A i \in 1..Len(fed) :
          fed[i].off = (IF i = 1 THEN 0 ELSE fed[i - 1].off + fed[i - 1].len)
    /\ pc \in {"finalize", "print_final", "done"} =>
          IF fed = <<>> THEN PayloadLen(wavFile) = 0
          ELSE fed[Len(fed)].off + fed[Len(fed)].len = PayloadLen(wavFile)

C7_Witness ==
    pc = "done" /\ Len(fed) = 3 /\ fed[3].len < FullBlockBytes /\ fed[3].len > 0

(* C8: an exception during the feed loop is not masked: the run ends at the    *)
(* failing statement, with no further read or feed, no finalize, and with      *)
(* exactly the lines printed so far; every interim text is printed before the  *)
(* next block is read.                                                         *)
C8_FeedLoopFailure ==
    /\ err # "none" => pc = "failed"
    /\ failedAt \in {"accept", "result"} =>
          /\ steps[Len(steps)] = (IF failedAt = "accept" THEN "feed" ELSE "result")
          /\ finals = <<>>
          /\ rec.state = "Active"
          /\ reads = Len(fed)
          /\ printed = TextsOf(interims)
    /\ pc \in {"read", "accept", "result"} => printed = TextsOf(interims)

C8_Witness ==
    /\ pc = "failed" /\ failedAt = "accept" /\ printed # <<>>
    /\ wf.pos < PayloadLen(wavFile)

(* C9: the wave reader is closed in every terminal state and is open whenever  *)
(* the script is inside the with block; it is never read once closed.          *)
C9_HandleReleased ==
    /\ pc \in {"done", "failed"} => wf.state # "open"
    /\ pc \in InWithBlock => wf.state = "open"
    /\ wf.state = "closed" => pc \in {"done", "failed"}
    /\ (pc = "failed" /\ failedAt \in InWithBlock) => wf.state = "closed"
    /\ pc = "done" => wf.state = "closed"

C9_Witness == pc = "failed" /\ failedAt = "result" /\ wf.state = "closed" /\ reads = 2

C9_WitnessFormat == pc = "failed" /\ failedAt = "validate" /\ wf.state = "closed"

C9_WitnessNormal == pc = "done" /\ wf.state = "closed" /\ reads = 3

(* C10: every run terminates; a run without error ends after feeding every     *)
(* block of the file exactly once in file order, and whenever a block is about *)
(* to be read every earlier block has been fed and its result printed.         *)
C10_Terminates ==
    /\ <>(pc \in {"done", "failed"})
    /\ [](pc = "done" => (fed = BlocksFrom(PayloadLen(wavFile), 0) /\ Occurs("finalize")))
    /\ [](pc = "read" => (reads = Len(fed) /\ printed = TextsOf(interims)))

C10_Witness ==
    /\ pc = "done" /\ Len(fed) = 3
    /\ fed = BlocksFrom(PayloadLen(wavFile), 0) /\ Len(interims) = 3

====
